---- MODULE Spec2Model ----
(***************************************************************************)
(* Verification model of the normalization -> schema inference ->          *)
(* versioning -> diff pipeline of the Dataverse backend.                   *)
(*                                                                         *)
(*   SpecTrack : run_dynamic_etl_bytes and the schema evolution tracker    *)
(*   SpecDiff  : compare_schemas / _extract_fields_from_schema             *)
(*   SpecNorm  : read_json / safe_json_to_df                               *)
(*   SpecFall  : read_html_safely and the READERS["pdf"] chain             *)
(***************************************************************************)
EXTENDS Integers, Sequences, FiniteSets, TLC

VARIABLES
    \* ---- schema evolution tracker and its caller (SpecTrack) ----
    genHasVersion, \* whether SchemaGenerator's descriptor carries a "version" key
    history,       \* source_id -> persisted sequence of descriptors
    lock,          \* source_id -> holder of the per-source critical section
    pc,            \* unit -> position inside run_dynamic_etl_bytes
    src,           \* unit -> source_id of the running upload
    schema,        \* unit -> the local variable `schema`
    loaded,        \* unit -> the latest descriptor add_schema read
    trackFailed,   \* unit -> add_schema raised in this upload
    result,        \* unit -> the dictionary returned by run_dynamic_etl_bytes
    uploads,       \* number of uploads started so far
    lastCand,      \* source_id -> fields of the last candidate add_schema settled
    lastRet,       \* source_id -> descriptor that call returned
    \* ---- schema diff engine (SpecDiff) ----
    dOld, dNew, dOut, dpc,
    \* ---- shape normalizer (SpecNorm) ----
    nText, nData, nFrame, nOut, npc,
    \* ---- extraction fallback (SpecFall) ----
    fFmt, fEnv, fTried, fOut, fpc

trackVars == <<genHasVersion, history, lock, pc, src, schema, loaded,
               trackFailed, result, uploads, lastCand, lastRet>>
diffVars  == <<dOld, dNew, dOut, dpc>>
normVars  == <<nText, nData, nFrame, nOut, npc>>
fallVars  == <<fFmt, fEnv, fTried, fOut, fpc>>
vars      == <<trackVars, diffVars, normVars, fallVars>>

\* What each component leaves alone.
notTrack == <<diffVars, normVars, fallVars>>
notDiff  == <<trackVars, normVars, fallVars>>
notNorm  == <<trackVars, diffVars, fallVars>>
notFall  == <<trackVars, diffVars, normVars>>

\* A key that a Python dict does not hold (dict.get returns its default).
Absent == "<absent>"

(***************************************************************************)
(* Part 1.  run_dynamic_etl_bytes and SchemaEvolution.add_schema           *)
(***************************************************************************)

MaxUploads == 4

Units   == {"u1", "u2"}
Sources == {"S", "T"}
NoUnit  == "none"

FldA  == [name |-> "a", type |-> "integer", nullable |-> FALSE]
FldB  == [name |-> "b", type |-> "string",  nullable |-> TRUE]

\* Field lists the SchemaGenerator can infer from an upload.
CandidateFields == { <<FldA>>, <<FldA, FldB>>, <<FldB, FldA>> }

NoSchema == [fields |-> <<>>, has_version |-> FALSE, version |-> 0]
NoResult == [returned |-> FALSE, structured |-> FALSE, schema |-> NoSchema,
             has_schema_version |-> FALSE, schema_version |-> 0]

\* SchemaGenerator.generate_schema: the in-memory descriptor of one upload.
GenerateSchema(fields, hasVersion) ==
    [fields |-> fields, has_version |-> hasVersion,
     version |-> IF hasVersion THEN 1 ELSE 0]

Range(s) == { s[i] : i \in DOMAIN s }

\* Field-name-and-type-and-nullable equality of two field lists (order and
\* row_count play no part).
FieldsEqual(f, g) == Range(f) = Range(g)

TrackInit ==
    /\ genHasVersion \in BOOLEAN
    /\ history = [s \in Sources |-> <<>>]
    /\ lock = [s \in Sources |-> NoUnit]
    /\ pc = [u \in Units |-> "idle"]
    /\ src = [u \in Units |-> "S"]
    /\ schema = [u \in Units |-> NoSchema]
    /\ loaded = [u \in Units |-> NoSchema]
    /\ trackFailed = [u \in Units |-> FALSE]
    /\ result = [u \in Units |-> NoResult]
    /\ uploads = 0
    /\ lastCand = [s \in Sources |-> <<>>]
    /\ lastRet = [s \in Sources |-> NoSchema]

TrackIdle ==
    /\ genHasVersion = FALSE
    /\ history = [s \in Sources |-> <<>>]
    /\ lock = [s \in Sources |-> NoUnit]
    /\ pc = [u \in Units |-> "idle"]
    /\ src = [u \in Units |-> "S"]
    /\ schema = [u \in Units |-> NoSchema]
    /\ loaded = [u \in Units |-> NoSchema]
    /\ trackFailed = [u \in Units |-> FALSE]
    /\ result = [u \in Units |-> NoResult]
    /\ uploads = 0
    /\ lastCand = [s \in Sources |-> <<>>]
    /\ lastRet = [s \in Sources |-> NoSchema]

\* Lines 46-62: extract, transform, generate the schema of a non-empty upload.
Generate(u) ==
    /\ pc[u] \in {"idle", "done"}
    /\ uploads < MaxUploads
    /\ \E s \in Sources, f \in CandidateFields :
          /\ src' = [src EXCEPT ![u] = s]
          /\ schema' = [schema EXCEPT ![u] = GenerateSchema(f, genHasVersion)]
    /\ pc' = [pc EXCEPT ![u] = "generated"]
    /\ trackFailed' = [trackFailed EXCEPT ![u] = FALSE]
    /\ result' = [result EXCEPT ![u] = NoResult]
    /\ uploads' = uploads + 1
    /\ UNCHANGED <<genHasVersion, history, lock, loaded, lastCand, lastRet>>
    /\ UNCHANGED notTrack

\* Lines 46-55: extraction produced nothing; the early return.
ExtractEmpty(u) ==
    /\ pc[u] \in {"idle", "done"}
    /\ uploads < MaxUploads
    /\ \E s \in Sources : src' = [src EXCEPT ![u] = s]
    /\ schema' = [schema EXCEPT ![u] = NoSchema]
    /\ trackFailed' = [trackFailed EXCEPT ![u] = FALSE]
    /\ result' = [result EXCEPT ![u] =
                    [NoResult EXCEPT !.returned = TRUE]]
    /\ pc' = [pc EXCEPT ![u] = "done"]
    /\ uploads' = uploads + 1
    /\ UNCHANGED <<genHasVersion, history, lock, loaded, lastCand, lastRet>>
    /\ UNCHANGED notTrack

\* add_schema, entry: the critical section of the upload's source_id.
LockFreeAlways(s) == TRUE
LockFree(s) == lock[s] = NoUnit

Acquire(u) ==
    /\ pc[u] = "generated"
    /\ LockFree(src[u])
    /\ lock' = [lock EXCEPT ![src[u]] = u]
    /\ pc' = [pc EXCEPT ![u] = "locked"]
    /\ UNCHANGED <<genHasVersion, history, src, schema, loaded, trackFailed,
                   result, uploads, lastCand, lastRet>>
    /\ UNCHANGED notTrack

\* The latest persisted descriptor of a history (NoSchema when it is empty).
Latest(h) == IF Len(h) = 0 THEN NoSchema ELSE h[Len(h)]

\* add_schema, load(source_id): the history as read by this call.
LoadHistory(u) ==
    /\ pc[u] = "locked"
    /\ loaded' = [loaded EXCEPT ![u] = Latest(history[src[u]])]
    /\ pc' = [pc EXCEPT ![u] = "loaded"]
    /\ UNCHANGED <<genHasVersion, history, lock, src, schema, trackFailed,
                   result, uploads, lastCand, lastRet>>
    /\ UNCHANGED notTrack

\* add_schema, compare: what the call does with the latest descriptor it read.
\* An empty history gets version 1; a candidate structurally equal to the
\* latest descriptor returns that descriptor and persists nothing; any other
\* candidate is persisted as latest.version + 1.
AddSchemaAlwaysAppends(latest, candidate) ==
    [persist |-> TRUE,
     desc |-> [fields |-> candidate.fields, has_version |-> TRUE,
               version |-> latest.version + 1]]

AddSchemaDecision(latest, candidate) ==
    IF latest = NoSchema
    THEN [persist |-> TRUE,
          desc |-> [fields |-> candidate.fields, has_version |-> TRUE,
                    version |-> 1]]
    ELSE IF FieldsEqual(latest.fields, candidate.fields)
    THEN [persist |-> FALSE, desc |-> latest]
    ELSE [persist |-> TRUE,
          desc |-> [fields |-> candidate.fields, has_version |-> TRUE,
                    version |-> latest.version + 1]]

\* add_schema, append and return; line 66 assigns the returned descriptor to
\* `schema`.  The critical section ends with the call.
CompareAppend(u) ==
    /\ pc[u] = "loaded"
    /\ LET s == src[u]
           d == AddSchemaDecision(loaded[u], schema[u])
       IN /\ history' = IF d.persist
                        THEN [history EXCEPT ![s] = Append(@, d.desc)]
                        ELSE history
          /\ schema' = [schema EXCEPT ![u] = d.desc]
          /\ lastCand' = [lastCand EXCEPT ![s] = schema[u].fields]
          /\ lastRet' = [lastRet EXCEPT ![s] = d.desc]
          /\ lock' = [lock EXCEPT ![s] = NoUnit]
    /\ pc' = [pc EXCEPT ![u] = "tracked"]
    /\ UNCHANGED <<genHasVersion, src, loaded, trackFailed, result, uploads>>
    /\ UNCHANGED notTrack

\* add_schema raises (storage unavailable on load or on append); lines 68-70
\* log a warning and keep the generated schema.
PersistenceFailure(u) ==
    /\ pc[u] \in {"locked", "loaded"}
    /\ lock' = [lock EXCEPT ![src[u]] = NoUnit]
    /\ trackFailed' = [trackFailed EXCEPT ![u] = TRUE]
    /\ pc' = [pc EXCEPT ![u] = "tracked"]
    /\ UNCHANGED <<genHasVersion, history, src, schema, loaded, result,
                   uploads, lastCand, lastRet>>
    /\ UNCHANGED notTrack

\* Line 116: schema.get("version", 1).
SchemaVersionEntry(sch) == IF sch.has_version THEN sch.version ELSE 1

\* Lines 72-117: build and return the result dictionary; the locals of the
\* call end with it.
Finish(u) ==
    /\ pc[u] = "tracked"
    /\ result' = [result EXCEPT ![u] =
                    [returned |-> TRUE, structured |-> TRUE,
                     schema |-> schema[u],
                     has_schema_version |-> TRUE,
                     schema_version |-> SchemaVersionEntry(schema[u])]]
    /\ schema' = [schema EXCEPT ![u] = NoSchema]
    /\ loaded' = [loaded EXCEPT ![u] = NoSchema]
    /\ pc' = [pc EXCEPT ![u] = "done"]
    /\ UNCHANGED <<genHasVersion, history, lock, src, trackFailed, uploads,
                   lastCand, lastRet>>
    /\ UNCHANGED notTrack

TrackNext ==
    \E u \in Units :
        \/ Generate(u)
        \/ ExtractEmpty(u)
        \/ Acquire(u)
        \/ LoadHistory(u)
        \/ CompareAppend(u)
        \/ PersistenceFailure(u)
        \/ Finish(u)

(***************************************************************************)
(* Part 2.  compare_schemas and _extract_fields_from_schema                *)
(*                                                                         *)
(* A schema value is [kind, fields, raw]:                                  *)
(*   kind   "none" (None), "empty" (a falsy value such as {}),             *)
(*          "nonmapping" (a truthy value that is no dict), "mapping"       *)
(*   fields the value under "fields": [kind, items], kind one of "absent", *)
(*          "list", "dict", "other"; items the elements of the list or the *)
(*          (key, value) pairs of the dict, in order                       *)
(*   raw    the value under "raw_schema": [kind, fields], kind one of      *)
(*          "absent", "other", "dict"                                      *)
(* An entry is [key, isdict, name, path, type, nullable, repr]: key is the *)
(* mapping key of a dict item, isdict tells a descriptor from any other    *)
(* value, repr is str() of a value that is no dict.                        *)
(***************************************************************************)

MaxFields == 2

DiffNames == {"a", "b", "c"}

\* (type, nullable) as written in a descriptor; Absent is a missing key.
TypeNullable ==
    { <<"string", "True">>, <<Absent, Absent>>,
      <<"integer", "False">>, <<"string", "False">> }

Falsy(v) == v \in {Absent, ""}
PyOr(a, b) == IF Falsy(a) THEN b ELSE a
DictGet(v, default) == IF v = Absent THEN default ELSE v

NoFields == [kind |-> "absent", items |-> <<>>]
NoRaw    == [kind |-> "absent", fields |-> NoFields]

\* The dict a list element or a dict-form value is, as a field object.
FieldObject(e) ==
    [name |-> e.name, path |-> e.path, type |-> e.type, nullable |-> e.nullable]

\* Lines 20-23: the canonical list form; the key is name, else path, else
\* "unknown"; a later element with the same key replaces an earlier one.
RECURSIVE ListFormFields(_, _)
ListFormFields(items, acc) ==
    IF items = <<>> THEN acc
    ELSE LET e == Head(items)
             k == PyOr(PyOr(e.name, e.path), "unknown")
         IN ListFormFields(Tail(items),
                IF e.isdict THEN (k :> FieldObject(e)) @@ acc ELSE acc)

\* Lines 27-31: the legacy dict form.
RECURSIVE DictFormFields(_, _)
DictFormFields(items, acc) ==
    IF items = <<>> THEN acc
    ELSE LET e == Head(items)
             f == IF e.isdict
                  THEN [FieldObject(e) EXCEPT !.name = e.key]
                  ELSE [name |-> e.key, path |-> Absent, type |-> e.repr,
                        nullable |-> Absent]
         IN DictFormFields(Tail(items), (e.key :> f) @@ acc)

\* Lines 43-47: the list under raw_schema; the key is name, else "unknown".
RECURSIVE RawFormFields(_, _)
RawFormFields(items, acc) ==
    IF items = <<>> THEN acc
    ELSE LET e == Head(items)
             k == PyOr(e.name, "unknown")
         IN RawFormFields(Tail(items),
                IF e.isdict THEN (k :> FieldObject(e)) @@ acc ELSE acc)

\* Lines 4-49.  [raised, fields]: schema_obj.get raises AttributeError on a
\* truthy value that is no dict.  The branch of lines 34-38 repeats the test
\* of line 19 and is never taken.
_extract_fields_no_raw_fallback(schema_obj) ==
    IF schema_obj.kind \in {"none", "empty"}
    THEN [raised |-> FALSE, fields |-> <<>>]
    ELSE IF schema_obj.kind = "nonmapping"
    THEN [raised |-> TRUE, fields |-> <<>>]
    ELSE [raised |-> FALSE,
          fields |-> IF schema_obj.fields.kind = "list"
                     THEN ListFormFields(schema_obj.fields.items, <<>>)
                     ELSE IF schema_obj.fields.kind = "dict"
                     THEN DictFormFields(schema_obj.fields.items, <<>>)
                     ELSE <<>>]

_extract_fields_from_schema(schema_obj) ==
    IF schema_obj.kind \in {"none", "empty"}
    THEN [raised |-> FALSE, fields |-> <<>>]
    ELSE IF schema_obj.kind = "nonmapping"
    THEN [raised |-> TRUE, fields |-> <<>>]
    ELSE LET first ==
               IF schema_obj.fields.kind = "list"
               THEN ListFormFields(schema_obj.fields.items, <<>>)
               ELSE IF schema_obj.fields.kind = "dict"
               THEN DictFormFields(schema_obj.fields.items, <<>>)
               ELSE <<>>
         IN [raised |-> FALSE,
             fields |->
               IF DOMAIN first = {} /\ schema_obj.raw.kind = "dict"
                  /\ schema_obj.raw.fields.kind = "list"
               THEN RawFormFields(schema_obj.raw.fields.items, <<>>)
               ELSE first]

\* Lines 68-69: a falsy schema has no fields and is not inspected.
Truthy(schema_obj) == schema_obj.kind \in {"nonmapping", "mapping"}

SideFields(schema_obj) ==
    IF Truthy(schema_obj) THEN _extract_fields_from_schema(schema_obj)
    ELSE [raised |-> FALSE, fields |-> <<>>]

TypeOf(f)     == DictGet(f.type, "string")
NullableOf(f) == DictGet(f.nullable, "True")

\* Lines 82-105: one entry of `changed`.
ChangedEntry(name, old_field, new_field) ==
    [name |-> name, field |-> name,
     old |-> [type |-> TypeOf(old_field), nullable |-> NullableOf(old_field)],
     new |-> [type |-> TypeOf(new_field), nullable |-> NullableOf(new_field)],
     old_type |-> TypeOf(old_field), new_type |-> TypeOf(new_field)]

NoDiff == [raised |-> FALSE, added |-> {}, removed |-> {}, changed |-> {},
           added_fields |-> {}, removed_fields |-> {},
           old_count |-> 0, new_count |-> 0]

\* The diff of two canonical name -> field maps, lines 71-116.  The three
\* lists are built by iterating Python sets, so their order is unspecified:
\* each is kept as the set of its elements.
DiffIgnoringNullable(old_fields, new_fields) ==
    LET old_names == DOMAIN old_fields
        new_names == DOMAIN new_fields
        added   == { new_fields[n] : n \in new_names \ old_names }
        removed == { old_fields[n] : n \in old_names \ new_names }
    IN [raised |-> FALSE, added |-> added, removed |-> removed,
        changed |->
          { ChangedEntry(n, old_fields[n], new_fields[n]) :
              n \in { m \in old_names \cap new_names :
                        TypeOf(old_fields[m]) # TypeOf(new_fields[m]) } },
        added_fields |-> { PyOr(f.name, DictGet(f.path, "unknown")) : f \in added },
        removed_fields |-> { PyOr(f.name, DictGet(f.path, "unknown")) : f \in removed },
        old_count |-> Cardinality(old_names),
        new_count |-> Cardinality(new_names)]

DiffOfFields(old_fields, new_fields) ==
    LET old_names == DOMAIN old_fields
        new_names == DOMAIN new_fields
        added   == { new_fields[n] : n \in new_names \ old_names }
        removed == { old_fields[n] : n \in old_names \ new_names }
    IN [raised |-> FALSE, added |-> added, removed |-> removed,
        changed |->
          { ChangedEntry(n, old_fields[n], new_fields[n]) :
              n \in { m \in old_names \cap new_names :
                        \/ TypeOf(old_fields[m]) # TypeOf(new_fields[m])
                        \/ NullableOf(old_fields[m]) # NullableOf(new_fields[m]) } },
        added_fields |-> { PyOr(f.name, DictGet(f.path, "unknown")) : f \in added },
        removed_fields |-> { PyOr(f.name, DictGet(f.path, "unknown")) : f \in removed },
        old_count |-> Cardinality(old_names),
        new_count |-> Cardinality(new_names)]

\* Lines 52-116.
compare_schemas(old_schema, new_schema) ==
    LET o == SideFields(old_schema)
        n == SideFields(new_schema)
    IN IF o.raised \/ n.raised
       THEN [NoDiff EXCEPT !.raised = TRUE]
       ELSE DiffOfFields(o.fields, n.fields)

\* ---- the schema values compare_schemas is called with ----

NamedEntry(n, tn) ==
    [key |-> Absent, isdict |-> TRUE, name |-> n, path |-> Absent,
     type |-> tn[1], nullable |-> tn[2], repr |-> ""]
PathEntry(p, tn) == [NamedEntry(Absent, tn) EXCEPT !.path = p]
MetaEntry(k, tn) == [NamedEntry(Absent, tn) EXCEPT !.key = k]
ValueEntry(k, r) ==
    [key |-> k, isdict |-> FALSE, name |-> Absent, path |-> Absent,
     type |-> Absent, nullable |-> Absent, repr |-> r]

NameOrder(n) == CASE n = "a" -> 1 [] n = "b" -> 2 [] OTHER -> 3

\* Descriptor lists of at most MaxFields fields with distinct names, one
\* list per set of names.
DescriptorLists ==
    UNION { { s \in [1..k -> { NamedEntry(n, tn) : n \in DiffNames, tn \in TypeNullable }] :
                \A i \in 1..(k-1) : NameOrder(s[i].name) < NameOrder(s[i+1].name) } :
            k \in 0..MaxFields }

ListSchema(items) ==
    [kind |-> "mapping", fields |-> [kind |-> "list", items |-> items], raw |-> NoRaw]
DictSchema(items) ==
    [kind |-> "mapping", fields |-> [kind |-> "dict", items |-> items], raw |-> NoRaw]
RawSchema(fields, items) ==
    [kind |-> "mapping", fields |-> fields,
     raw |-> [kind |-> "dict", fields |-> [kind |-> "list", items |-> items]]]

AsMeta(items) == [i \in DOMAIN items |-> MetaEntry(items[i].name, <<items[i].type, items[i].nullable>>)]

NoneSchema       == [kind |-> "none", fields |-> NoFields, raw |-> NoRaw]
EmptySchema      == [kind |-> "empty", fields |-> NoFields, raw |-> NoRaw]
NonMappingSchema == [kind |-> "nonmapping", fields |-> NoFields, raw |-> NoRaw]

SA == <<"string", "True">>
IA == <<"integer", "False">>

\* Schemas outside the three recognized shapes, or with entries that are no
\* well-formed descriptors.
OddSchemas ==
    { NonMappingSchema,
      \* a dict without fields and without raw_schema
      [kind |-> "mapping", fields |-> NoFields, raw |-> NoRaw],
      \* fields is neither a list nor a dict
      [kind |-> "mapping", fields |-> [kind |-> "other", items |-> <<>>], raw |-> NoRaw],
      \* a list whose elements are no dicts
      ListSchema(<<ValueEntry(Absent, "a"), ValueEntry(Absent, "7")>>),
      \* the same, with a usable raw_schema beside it
      RawSchema([kind |-> "list", items |-> <<ValueEntry(Absent, "a")>>],
                <<NamedEntry("a", SA), NamedEntry("b", IA)>>),
      \* raw_schema is no dict
      [kind |-> "mapping", fields |-> NoFields,
       raw |-> [kind |-> "other", fields |-> NoFields]],
      \* raw_schema holds its fields as a dict
      [kind |-> "mapping", fields |-> NoFields,
       raw |-> [kind |-> "dict",
                fields |-> [kind |-> "dict", items |-> <<MetaEntry("a", SA)>>]]],
      \* descriptors without name and path
      ListSchema(<<NamedEntry(Absent, SA), NamedEntry(Absent, IA)>>),
      \* two descriptors of one name
      ListSchema(<<NamedEntry("a", SA), NamedEntry("a", IA)>>),
      \* a descriptor with a name beside one without
      ListSchema(<<NamedEntry("a", SA), NamedEntry("", IA), ValueEntry(Absent, "x")>>) }

\* Well-formed schemas in shapes other than the plain named list.
OtherShapes ==
    { ListSchema(<<PathEntry("a", SA), PathEntry("b", IA)>>),
      ListSchema(<<[PathEntry("c", IA) EXCEPT !.name = ""], NamedEntry("a", IA)>>),
      DictSchema(<<ValueEntry("a", "integer"), MetaEntry("b", SA)>>),
      DictSchema(<<ValueEntry("c", "string")>>) }

SchemaUniverse ==
    { NoneSchema, EmptySchema }
    \cup { ListSchema(s) : s \in DescriptorLists }
    \cup { DictSchema(AsMeta(s)) : s \in DescriptorLists }
    \cup { RawSchema(NoFields, s) : s \in DescriptorLists }
    \cup OtherShapes
    \cup OddSchemas

DiffInit ==
    /\ dOld \in SchemaUniverse
    /\ dNew \in SchemaUniverse
    /\ dOut = NoDiff
    /\ dpc = "call"

DiffIdle ==
    /\ dOld = NoneSchema
    /\ dNew = NoneSchema
    /\ dOut = NoDiff
    /\ dpc = "call"

\* One call compare_schemas(dOld, dNew).
Compare ==
    /\ dpc = "call"
    /\ dOut' = compare_schemas(dOld, dNew)
    /\ dpc' = IF compare_schemas(dOld, dNew).raised THEN "raised" ELSE "returned"
    /\ UNCHANGED <<dOld, dNew>>
    /\ UNCHANGED notDiff

DiffNext == Compare

(***************************************************************************)
(* Part 3.  read_json and safe_json_to_df                                  *)
(*                                                                         *)
(* A JSON value is [kind, text]: kind one of "null", "num", "str", "dict", *)
(* "list", text its JSON text.  A decoded payload is [shape, items, cols,  *)
(* val]: a list of items [isdict, map, val], a dict of columns             *)
(* [key, islist, elems, val] in insertion order, or a primitive val.       *)
(* A DataFrame is [raised, columns, rows], rows being the records of       *)
(* to_dict(orient="records"); raised stands for the constructor's          *)
(* ValueError.                                                             *)
(***************************************************************************)

MaxItems == 2

Null       == [kind |-> "null", text |-> "null"]
NaN        == [kind |-> "null", text |-> "NaN"]
Num1       == [kind |-> "num",  text |-> "1"]
StrX       == [kind |-> "str",  text |-> "x"]
NestedDict == [kind |-> "dict", text |-> "{\"k\": 1}"]
NestedList == [kind |-> "list", text |-> "[1, 2]"]

PayloadKeys == {"a", "b"}

\* json.dumps of a nested value: the string holding its JSON text.
JsonDumps(v) == [kind |-> "str", text |-> v.text]

EmptyFrame  == [raised |-> FALSE, columns |-> {}, rows |-> <<>>]
RaisedFrame == [raised |-> TRUE,  columns |-> {}, rows |-> <<>>]

\* pd.DataFrame(list of dicts): the columns are the union of the keys, a key
\* a record lacks is NaN.
DataFrameKeepingRecords(records) ==
    [raised |-> FALSE,
     columns |-> UNION { DOMAIN records[i] : i \in DOMAIN records },
     rows |-> records]

DataFrameFromRecords(records) ==
    LET columns == UNION { DOMAIN records[i] : i \in DOMAIN records }
    IN [raised |-> FALSE, columns |-> columns,
        rows |-> [i \in DOMAIN records |->
                    [c \in columns |->
                       IF c \in DOMAIN records[i] THEN records[i][c] ELSE NaN]]]

\* pd.DataFrame(dict of lists): ValueError unless all lists have one length.
DataFrameFromColumns(cleaned) ==
    LET lens == { Len(cleaned[c]) : c \in DOMAIN cleaned }
    IN IF Cardinality(lens) > 1 THEN RaisedFrame
       ELSE IF lens = {} THEN EmptyFrame
       ELSE LET n == CHOOSE k \in lens : TRUE
            IN [raised |-> FALSE, columns |-> DOMAIN cleaned,
                rows |-> [i \in 1..n |-> [c \in DOMAIN cleaned |-> cleaned[c][i]]]]

\* Lines 30-39: one element of a list payload as a row.
NormalizeItem(item) ==
    IF item.isdict
    THEN [k \in DOMAIN item.map |->
            IF item.map[k].kind \in {"dict", "list"}
            THEN JsonDumps(item.map[k]) ELSE item.map[k]]
    ELSE [k \in {"value"} |-> item.val]

\* value + [None] * n; a negative n repeats nothing.
PadNone(seq, n) == seq \o [i \in 1..n |-> Null]

Max(S, default) == IF S = {} THEN default ELSE CHOOSE m \in S : \A k \in S : k <= m

\* Lines 45-57: the padded columns of a dict payload.
CleanedColumns(cols) ==
    LET max_len == Max({ Len(cols[i].elems) : i \in { j \in DOMAIN cols : cols[j].islist } }, 1)
        Column(col) == IF col.islist
                       THEN PadNone(col.elems, max_len - Len(col.elems))
                       ELSE PadNone(<<col.val>>, max_len - 1)
    IN [k \in { cols[i].key : i \in DOMAIN cols } |->
          Column(cols[CHOOSE i \in DOMAIN cols : cols[i].key = k])]

\* Lines 14-62.
safe_json_to_df(data) ==
    IF data.shape = "list"
    THEN DataFrameFromRecords([i \in DOMAIN data.items |-> NormalizeItem(data.items[i])])
    ELSE IF data.shape = "dict"
    THEN DataFrameFromColumns(CleanedColumns(data.cols))
    ELSE DataFrameFromRecords(<<[k \in {"0"} |-> data.val]>>)

\* Lines 73-75: what read_json returns when json.load or safe_json_to_df
\* raised.
OnExceptionReraise == RaisedFrame
OnException == EmptyFrame

\* ---- the payloads read_json is given ----

DictItem(m) == [isdict |-> TRUE, map |-> m, val |-> Null]
PlainItem(v) == [isdict |-> FALSE, map |-> <<>>, val |-> v]

ItemMaps ==
    UNION { [K -> {Num1, Null, NestedDict}] : K \in SUBSET PayloadKeys }

Items == { DictItem(m) : m \in ItemMaps }
         \cup { PlainItem(v) : v \in {StrX, NestedList, Null} }

ListColumn(k, elems) == [key |-> k, islist |-> TRUE, elems |-> elems, val |-> Null]
PlainColumn(k, v) == [key |-> k, islist |-> FALSE, elems |-> <<>>, val |-> v]

ColumnsOf(k) ==
    { ListColumn(k, e) : e \in UNION { [1..n -> {Num1, NestedDict}] : n \in 0..MaxItems } }
    \cup { PlainColumn(k, v) : v \in {StrX, NestedDict, Null} }

ListPayload(items) == [shape |-> "list", items |-> items, cols |-> <<>>, val |-> Null]
DictPayload(cols)  == [shape |-> "dict", items |-> <<>>, cols |-> cols, val |-> Null]
PrimPayload(v)     == [shape |-> "prim", items |-> <<>>, cols |-> <<>>, val |-> v]

Payloads ==
    { ListPayload(s) : s \in UNION { [1..n -> Items] : n \in 0..MaxItems } }
    \cup { DictPayload(<<>>) }
    \cup { DictPayload(<<c>>) : c \in ColumnsOf("a") \cup ColumnsOf("b") }
    \cup { DictPayload(<<c, d>>) : c \in ColumnsOf("a"), d \in ColumnsOf("b") }
    \cup { PrimPayload(v) : v \in {Num1, StrX, Null} }

NormInit ==
    /\ nText \in { [valid |-> TRUE, data |-> d] : d \in Payloads }
                 \cup { [valid |-> FALSE, data |-> PrimPayload(Null)] }
    /\ nData = PrimPayload(Null)
    /\ nFrame = EmptyFrame
    /\ nOut = EmptyFrame
    /\ npc = "start"

NormIdle ==
    /\ nText = [valid |-> FALSE, data |-> PrimPayload(Null)]
    /\ nData = PrimPayload(Null)
    /\ nFrame = EmptyFrame
    /\ nOut = EmptyFrame
    /\ npc = "start"

\* Lines 67-69: open the file and json.load it; text that is no JSON raises.
JsonLoad ==
    /\ npc = "start"
    /\ IF nText.valid
       THEN nData' = nText.data /\ npc' = "loaded"
       ELSE nData' = nData /\ npc' = "except"
    /\ UNCHANGED <<nText, nFrame, nOut>>
    /\ UNCHANGED notNorm

\* Line 71: the call safe_json_to_df(data).
Normalize ==
    /\ npc = "loaded"
    /\ nFrame' = safe_json_to_df(nData)
    /\ npc' = IF safe_json_to_df(nData).raised THEN "except" ELSE "return"
    /\ UNCHANGED <<nText, nData, nOut>>
    /\ UNCHANGED notNorm

\* Line 71: return the frame.
ReturnFrame ==
    /\ npc = "return"
    /\ nOut' = nFrame
    /\ npc' = "done"
    /\ UNCHANGED <<nText, nData, nFrame>>
    /\ UNCHANGED notNorm

\* Lines 73-75: except Exception.
Except ==
    /\ npc = "except"
    /\ nOut' = OnException
    /\ npc' = "done"
    /\ UNCHANGED <<nText, nData, nFrame>>
    /\ UNCHANGED notNorm

NormNext == JsonLoad \/ Normalize \/ ReturnFrame \/ Except

(***************************************************************************)
(* Part 4.  READERS["html"] -> read_html_safely and READERS["pdf"]         *)
(*                                                                         *)
(* fEnv[i] is what candidate i does on the file at hand.  pd.read_html:    *)
(* "raise", "no_tables" (an empty list), "empty_table" (the first table    *)
(* has no rows), "rows".  A PDF reader: "raise", "none", "empty_list",     *)
(* "rows_list", "empty_frame", "frame" (the last two are DataFrames, whose *)
(* truth value is a ValueError).                                           *)
(***************************************************************************)

HtmlOutcomes == {"raise", "no_tables", "empty_table", "rows"}
PdfOutcomes  == {"raise", "none", "empty_list", "rows_list", "empty_frame", "frame"}

HtmlCandidates == 3
PdfCandidates  == 2

Pending   == [kind |-> "pending", by |-> 0]
Exception == [kind |-> "exception", by |-> 0]
EmptyRows == [kind |-> "empty", by |-> 0]

FallInit ==
    /\ fFmt \in {"html", "pdf"}
    /\ fEnv \in IF fFmt = "html" THEN [1..HtmlCandidates -> HtmlOutcomes]
                ELSE [1..PdfCandidates -> PdfOutcomes]
    /\ fTried = <<>>
    /\ fOut = Pending
    /\ fpc = "dispatch"

FallIdle ==
    /\ fFmt = "html"
    /\ fEnv = [i \in 1..HtmlCandidates |-> "raise"]
    /\ fTried = <<>>
    /\ fOut = Pending
    /\ fpc = "dispatch"

\* Line 123: READERS["html"] calls read_html_safely(path).
CallHtmlReader ==
    /\ fpc = "dispatch"
    /\ fFmt = "html"
    /\ fpc' = "lxml"
    /\ UNCHANGED <<fFmt, fEnv, fTried, fOut>>
    /\ UNCHANGED notFall

\* One try block of read_html_safely: `if tables: return tables[0]`, any
\* exception swallowed.
TryReadHtml(i, here, next) ==
    /\ fpc = here
    /\ fTried' = Append(fTried, i)
    /\ IF fEnv[i] \in {"empty_table", "rows"}
       THEN fOut' = [kind |-> fEnv[i], by |-> i] /\ fpc' = "done"
       ELSE fOut' = fOut /\ fpc' = next
    /\ UNCHANGED <<fFmt, fEnv>>
    /\ UNCHANGED notFall

\* Lines 83-88.
TryLxml == TryReadHtml(1, "lxml", "html5lib")
\* Lines 90-95.
TryHtml5lib == TryReadHtml(2, "html5lib", "default")
\* Lines 97-102.
TryDefault == TryReadHtml(3, "default", "fallthrough")

\* Line 104.
ReturnEmptyFrame ==
    /\ fpc = "fallthrough"
    /\ fOut' = EmptyRows
    /\ fpc' = "done"
    /\ UNCHANGED <<fFmt, fEnv, fTried>>
    /\ UNCHANGED notFall

\* Line 129, left operand of `or`: the call read_pdf_tables(path); an
\* exception it raises leaves the lambda.
PdfTables ==
    /\ fpc = "dispatch"
    /\ fFmt = "pdf"
    /\ fTried' = Append(fTried, 1)
    /\ IF fEnv[1] = "raise"
       THEN fOut' = Exception /\ fpc' = "done"
       ELSE fOut' = [kind |-> fEnv[1], by |-> 1] /\ fpc' = "truth"
    /\ UNCHANGED <<fFmt, fEnv>>
    /\ UNCHANGED notFall

\* Line 129, the truth test of `or` on the left operand: a DataFrame raises
\* ValueError, a non-empty list is returned, None and [] go on to the right
\* operand.
PdfTruthTest ==
    /\ fpc = "truth"
    /\ CASE fOut.kind \in {"empty_frame", "frame"} ->
               fOut' = Exception /\ fpc' = "done"
         [] fOut.kind = "rows_list" ->
               fOut' = fOut /\ fpc' = "done"
         [] OTHER ->
               fOut' = fOut /\ fpc' = "ocr"
    /\ UNCHANGED <<fFmt, fEnv, fTried>>
    /\ UNCHANGED notFall

\* Line 129, right operand of `or`: read_pdf_text_ocr(path), returned as is.
PdfOcr ==
    /\ fpc = "ocr"
    /\ fTried' = Append(fTried, 2)
    /\ fOut' = IF fEnv[2] = "raise" THEN Exception
               ELSE [kind |-> fEnv[2], by |-> 2]
    /\ fpc' = "done"
    /\ UNCHANGED <<fFmt, fEnv>>
    /\ UNCHANGED notFall

FallNext ==
    \/ CallHtmlReader
    \/ TryLxml
    \/ TryHtml5lib
    \/ TryDefault
    \/ ReturnEmptyFrame
    \/ PdfTables
    \/ PdfTruthTest
    \/ PdfOcr

(***************************************************************************)
(* Specifications                                                          *)
(***************************************************************************)

InitTrack == TrackInit /\ DiffIdle /\ NormIdle /\ FallIdle
InitDiff  == TrackIdle /\ DiffInit /\ NormIdle /\ FallIdle
InitNorm  == TrackIdle /\ DiffIdle /\ NormInit /\ FallIdle
InitFall  == TrackIdle /\ DiffIdle /\ NormIdle /\ FallInit

SpecTrack == InitTrack /\ [][TrackNext]_vars
SpecDiff  == InitDiff /\ [][DiffNext]_vars
SpecNorm  == InitNorm /\ [][NormNext]_vars
SpecFall  == InitFall /\ [][FallNext]_vars

(***************************************************************************)
(* Properties of the schema evolution tracker (SpecTrack)                  *)
(***************************************************************************)

\* Units inside the read-compare-append sequence of source s.
InCritical(s) == { u \in Units : src[u] = s /\ pc[u] \in {"locked", "loaded"} }

\* C1: under any interleaving of concurrent add_schema calls, the persisted
\* versions of every source are exactly 1, 2, ..., n (no gap, no version
\* created twice), and at most one call at a time is between reading the
\* latest version of a source and appending to it.
C1_VersionsDense ==
    \A s \in Sources :
        /\ \A i \in 1..Len(history[s]) :
              history[s][i].has_version /\ history[s][i].version = i
        /\ Cardinality(InCritical(s)) <= 1

\* C1 witness: a source with two persisted versions while one call holds its
\* critical section and a concurrent call for the same source waits to enter.
C1_Witness ==
    \E s \in Sources : \E u, v \in Units :
        /\ u # v /\ src[u] = s /\ src[v] = s
        /\ pc[u] = "loaded" /\ pc[v] = "generated"
        /\ Len(history[s]) >= 2

\* C2: track is idempotent.  A call whose candidate is the candidate of the
\* previous settled call for that source persists nothing and returns the
\* descriptor that call returned; a candidate whose fields equal the latest
\* version's fields by name, type and nullable returns the existing latest
\* descriptor and leaves the history unchanged; no call adds more than one
\* version.
C2_TrackIdempotent ==
    [][ \A u \in Units :
          (pc[u] = "loaded" /\ pc'[u] = "tracked" /\ ~trackFailed'[u]) =>
             LET s == src[u]
             IN /\ (lastCand[s] = schema[u].fields =>
                       history' = history /\ schema'[u] = lastRet[s])
                /\ ((history[s] # <<>> /\
                     FieldsEqual(Latest(history[s]).fields, schema[u].fields)) =>
                       history' = history /\ schema'[u] = Latest(history[s]))
                /\ Len(history'[s]) <= Len(history[s]) + 1 ]_vars

\* C2 witness: with versions 1 and 2 persisted, a call has read version 2 and
\* returned that same descriptor without adding a version.
C2_Witness ==
    \E u \in Units :
        /\ pc[u] = "tracked" /\ ~trackFailed[u]
        /\ Len(history[src[u]]) = 2
        /\ loaded[u] = history[src[u]][2]
        /\ schema[u] = loaded[u]

\* C8: when add_schema fails, the pipeline still returns the structured data
\* with the in-memory schema, and the result carries no schema_version number
\* for the schema the tracker did not persist.
C8_NoVersionWhenUntracked ==
    \A u \in Units :
        (pc[u] = "done" /\ trackFailed[u]) =>
            /\ result[u].returned /\ result[u].structured
            /\ result[u].schema.fields \in CandidateFields
            /\ ~result[u].has_schema_version

(***************************************************************************)
(* Properties of the schema diff engine (SpecDiff)                         *)
(***************************************************************************)

\* What a schema declares, read off its shape: the set of
\* [name, type, nullable] with missing type and nullable defaulted.
DeclaredEntries(schema_obj) ==
    IF schema_obj.kind # "mapping" THEN <<>>
    ELSE IF schema_obj.fields.kind \in {"list", "dict"} /\ schema_obj.fields.items # <<>>
    THEN schema_obj.fields.items
    ELSE IF schema_obj.raw.kind = "dict" /\ schema_obj.raw.fields.kind = "list"
    THEN schema_obj.raw.fields.items
    ELSE <<>>

InDictForm(schema_obj) ==
    schema_obj.kind = "mapping" /\ schema_obj.fields.kind = "dict"
    /\ schema_obj.fields.items # <<>>

InRawForm(schema_obj) ==
    schema_obj.kind = "mapping" /\ ~(schema_obj.fields.kind \in {"list", "dict"}
                                     /\ schema_obj.fields.items # <<>>)

DeclaredName(schema_obj, e) ==
    IF InDictForm(schema_obj) THEN e.key
    ELSE IF InRawForm(schema_obj) THEN e.name
    ELSE IF e.name \in {Absent, ""} THEN e.path ELSE e.name

\* The field object the diff reports for a declared entry.
DeclaredObject(schema_obj, e) ==
    IF InDictForm(schema_obj)
    THEN [name |-> e.key, path |-> e.path,
          type |-> IF e.isdict THEN e.type ELSE e.repr, nullable |-> e.nullable]
    ELSE [name |-> e.name, path |-> e.path, type |-> e.type, nullable |-> e.nullable]

Declared(schema_obj) ==
    { LET o == DeclaredObject(schema_obj, e)
      IN [name |-> DeclaredName(schema_obj, e),
          type |-> IF o.type = Absent THEN "string" ELSE o.type,
          nullable |-> IF o.nullable = Absent THEN "True" ELSE o.nullable] :
      e \in Range(DeclaredEntries(schema_obj)) }

\* None, an empty value, or a mapping in one of the three recognized shapes
\* whose entries are descriptors with distinct, non-empty names.
WellFormed(schema_obj) ==
    /\ schema_obj.kind # "nonmapping"
    /\ LET es == DeclaredEntries(schema_obj)
       IN /\ \A i \in DOMAIN es :
                /\ es[i].isdict \/ InDictForm(schema_obj)
                /\ DeclaredName(schema_obj, es[i]) \notin {Absent, ""}
          /\ \A i, j \in DOMAIN es :
                DeclaredName(schema_obj, es[i]) = DeclaredName(schema_obj, es[j]) => i = j
    /\ schema_obj.kind = "mapping" /\ DeclaredEntries(schema_obj) = <<>> =>
          /\ schema_obj.fields.kind \in {"absent", "list", "dict"}
          /\ schema_obj.raw.kind \in {"absent", "dict"}
          /\ schema_obj.raw.fields.kind \in {"absent", "list"}

Names(triples) == { d.name : d \in triples }

TypeNullableOf(f) ==
    [type |-> IF f.type = Absent THEN "string" ELSE f.type,
     nullable |-> IF f.nullable = Absent THEN "True" ELSE f.nullable]

\* C3: compare_schemas returns added = exactly the fields whose name is in new
\* and not in old, removed = exactly the fields whose name is in old and not
\* in new, changed = exactly the names in both whose type or nullable differ
\* after defaulting a missing type to string and a missing nullable to true,
\* each changed entry carrying the old and the new {type, nullable}; a field
\* equal on both sides appears in none of the three.
C3_DiffIsExact ==
    (dpc # "call" /\ dOld.kind # "nonmapping" /\ dNew.kind # "nonmapping") =>
        LET O == SideFields(dOld).fields
            N == SideFields(dNew).fields
            both == DOMAIN O \cap DOMAIN N
        IN /\ dpc = "returned"
           /\ dOut.added = { N[n] : n \in DOMAIN N \ DOMAIN O }
           /\ dOut.removed = { O[n] : n \in DOMAIN O \ DOMAIN N }
           /\ \A n \in both :
                 (TypeNullableOf(O[n]) # TypeNullableOf(N[n]))
                    <=> (\E c \in dOut.changed : c.name = n)
           /\ \A c \in dOut.changed :
                 /\ c.name \in both
                 /\ c.old = TypeNullableOf(O[c.name])
                 /\ c.new = TypeNullableOf(N[c.name])
                 /\ \A d \in dOut.changed : d.name = c.name => d = c
           /\ (WellFormed(dOld) /\ WellFormed(dNew)) =>
                 LET DO == Declared(dOld)
                     DN == Declared(dNew)
                 IN /\ { [name |-> PyOr(f.name, f.path)] @@ TypeNullableOf(f) :
                           f \in dOut.added }
                         = { d \in DN : d.name \notin Names(DO) }
                    /\ { [name |-> PyOr(f.name, f.path)] @@ TypeNullableOf(f) :
                           f \in dOut.removed }
                         = { d \in DO : d.name \notin Names(DN) }
                    /\ { [name |-> c.name] @@ c.new : c \in dOut.changed }
                         = { d \in DN : d.name \in Names(DO) /\ d \notin DO }
                    /\ { [name |-> c.name] @@ c.old : c \in dOut.changed }
                         = { d \in DO : d.name \in Names(DN) /\ d \notin DN }

\* C3 witness: a returned diff of two well-formed schemas with a field added,
\* a field removed and a field changed.
C3_Witness ==
    /\ dpc = "returned"
    /\ WellFormed(dOld) /\ WellFormed(dNew)
    /\ dOut.added # {} /\ dOut.removed # {} /\ dOut.changed # {}

\* C4: when old is None or absent, added holds every field of new, one entry
\* per field descriptor of new whichever recognized shape new is written in,
\* and removed and changed are empty.
C4_NullOldAddsAll ==
    (dpc # "call" /\ dOld.kind \in {"none", "empty"} /\ dNew.kind # "nonmapping") =>
        /\ dpc = "returned"
        /\ dOut.removed = {}
        /\ dOut.changed = {}
        /\ WellFormed(dNew) =>
              /\ dOut.added = { DeclaredObject(dNew, e) :
                                  e \in Range(DeclaredEntries(dNew)) }
              /\ Cardinality(dOut.added) = Len(DeclaredEntries(dNew))
              /\ dOut.new_count = Len(DeclaredEntries(dNew))

\* C4 witness: old is None and new holds two descriptors under raw_schema,
\* both reported as added.
C4_Witness ==
    /\ dpc = "returned"
    /\ dOld.kind = "none"
    /\ InRawForm(dNew) /\ WellFormed(dNew)
    /\ Len(DeclaredEntries(dNew)) = 2
    /\ Cardinality(dOut.added) = 2

\* A side without a recognizable field shape in any known form.
Unrecognizable(schema_obj) ==
    \/ schema_obj.kind = "nonmapping"
    \/ /\ schema_obj.kind = "mapping"
       /\ \/ schema_obj.fields.kind \in {"absent", "other"}
          \/ /\ schema_obj.fields.kind = "list"
             /\ \A i \in DOMAIN schema_obj.fields.items :
                   ~schema_obj.fields.items[i].isdict
       /\ \/ schema_obj.raw.kind # "dict"
          \/ schema_obj.raw.fields.kind # "list"
          \/ \A i \in DOMAIN schema_obj.raw.fields.items :
                ~schema_obj.raw.fields.items[i].isdict

\* C9: compare_schemas never raises on a malformed schema input; a side
\* without a recognizable field shape (a value that is no mapping included)
\* counts as having zero fields, so the diff degrades to all added or all
\* removed.
C9_MalformedIsEmpty ==
    dpc # "call" =>
        /\ dpc = "returned"
        /\ Unrecognizable(dOld) =>
              dOut.old_count = 0 /\ dOut.removed = {} /\ dOut.changed = {}
        /\ Unrecognizable(dNew) =>
              dOut.new_count = 0 /\ dOut.added = {} /\ dOut.changed = {}

(***************************************************************************)
(* Properties of the shape normalizer (SpecNorm)                           *)
(***************************************************************************)

\* Whether the payload holds a value for field c of row i.
Present(data, i, c) ==
    CASE data.shape = "list" ->
            IF data.items[i].isdict THEN c \in DOMAIN data.items[i].map
            ELSE c = "value"
      [] data.shape = "dict" ->
            \E j \in DOMAIN data.cols :
                /\ data.cols[j].key = c
                /\ IF data.cols[j].islist THEN i <= Len(data.cols[j].elems) ELSE i = 1
      [] OTHER -> TRUE

SameFieldNames(frame) ==
    \A i \in DOMAIN frame.rows : DOMAIN frame.rows[i] = frame.columns

\* C5: every row of a row set the normalizer produces has the same field-name
\* set, and a value absent in the input is null in the row.
C5_PaddingInvariant ==
    /\ SameFieldNames(nFrame)
    /\ SameFieldNames(nOut)
    /\ (npc \in {"return", "done"} /\ nText.valid /\ ~nFrame.raised) =>
          /\ nData.shape = "list" => Len(nFrame.rows) = Len(nData.items)
          /\ \A i \in DOMAIN nFrame.rows : \A c \in nFrame.columns :
                ~Present(nData, i, c) => nFrame.rows[i][c].kind = "null"

\* C5 witness: a list of two mappings with different key sets was normalized
\* into two rows.
C5_Witness ==
    /\ npc = "done"
    /\ nData.shape = "list" /\ Len(nData.items) = 2
    /\ nData.items[1].isdict /\ nData.items[2].isdict
    /\ DOMAIN nData.items[1].map = {"a", "b"}
    /\ DOMAIN nData.items[2].map = {"a"}
    /\ Len(nOut.rows) = 2

C10_CellsAreScalars ==
    \A i \in DOMAIN nOut.rows : \A c \in DOMAIN nOut.rows[i] :
        nOut.rows[i][c].kind \in {"null", "num", "str"}

(***************************************************************************)
(* Properties of the extraction fallback (SpecFall)                        *)
(***************************************************************************)

\* A candidate succeeds when it returns a non-empty row set without raising.
Succeeds(outcome) == outcome \in {"rows", "rows_list", "frame"}

IsEmptyRowSet(out) ==
    out.kind \in {"empty", "empty_table", "empty_list", "empty_frame", "none"}

\* C7: the candidates are tried strictly in priority order; the result is the
\* row set of the first candidate that succeeds and no later candidate is
\* tried; when every candidate raises or returns empty the result is the
\* empty row set and no exception leaves the coordinator.
C7_FirstSuccessWins ==
    /\ fTried = [i \in 1..Len(fTried) |-> i]
    /\ fpc = "done" =>
          LET winners == { i \in DOMAIN fEnv : Succeeds(fEnv[i]) }
          IN IF winners # {}
             THEN LET k == CHOOSE i \in winners : \A j \in winners : i <= j
                  IN /\ fOut = [kind |-> fEnv[k], by |-> k]
                     /\ Len(fTried) = k
             ELSE IsEmptyRowSet(fOut)
====
